---- MODULE Spec2Model ----
(***************************************************************************)
(* GameStateManager (src/src/utils/GameStateManager.js): the state tree of *)
(* the game, its mutation API, the event bus and load/migration.           *)
(*                                                                         *)
(* A JavaScript object is a function from its own keys (strings) to        *)
(* values, so that the presence of a key is part of the value; an array is *)
(* a sequence; a primitive standing where an object is expected is the     *)
(* record [type |-> ..., val |-> ...].  The class defines unlock and       *)
(* checkEndingConditions twice; in a class body the later definition       *)
(* replaces the earlier one, so the operators of those names model the     *)
(* later definitions (lines 687-703) and the earlier ones (lines 324-337   *)
(* and 380-411) are never executed.                                        *)
(***************************************************************************)
EXTENDS Integers, Sequences, FiniteSets, TLC

VARIABLES
    state,      \* this.state: the live tree
    emitted,    \* the emit(event, data) calls made by the last operation, in order
    ret,        \* how the last operation ended: its return value, or what it threw
    call,       \* the last operation called, with its arguments
    now,        \* the latest value Date.now() has returned
    listeners,  \* this.listeners: for each event name, its callbacks in order
    invoked,    \* the callbacks entered and left during the last operation
    snapshot,   \* the tree a caller got from getCurrentState() and holds; null if none
    shared,     \* the top-level fields whose object the snapshot and the live tree share
    lastSaveTime, \* this.lastSaveTime
    storage,    \* the item 'mahjong_gakuen_save' of localStorage
    app         \* the MahjongGakuenBattleStory instance and its position in initialize

vars == <<state, emitted, ret, call, now, listeners, invoked, snapshot, shared,
          lastSaveTime, storage, app>>

\* what belongs to the application around the store, and the time of the last save
appVars == <<lastSaveTime, storage, app>>

----------------------------------------------------------------------------
(* Bounds of the model *)

\* Date.now() returns values in 0..MaxNow
MaxNow == 1
\* games are recorded while the counters of recorded games (gamesPlayed, gamesWon
\* and every battleCount) add up to less than MaxRecorded
MaxRecorded == 2
\* increaseIntimacy is driven down to -MaxDebt
MaxDebt == 150

----------------------------------------------------------------------------
(* JavaScript values *)

EmptyObject == [k \in {} |-> 0]

JSNull == [type |-> "null"]
JSUndefined == [type |-> "undefined"]
JSNumber(n) == [type |-> "number", val |-> n]
JSBoolean(b) == [type |-> "boolean", val |-> b]
JSString(s) == [type |-> "string", val |-> s]
JSArray(a) == [type |-> "array", val |-> a]
Thrown(e) == [type |-> "throw", val |-> e]

\* a value that has own enumerable properties of the tree's kind
IsObject(v) == "type" \notin DOMAIN v

\* { ...v }: the own enumerable properties; none for null, undefined, a number
OwnProps(v) == IF IsObject(v) THEN v ELSE EmptyObject

\* { ...a, ...b }
Spread(a, b) ==
    IF ~IsObject(b) THEN OwnProps(a)
    ELSE IF ~IsObject(a) THEN b
    ELSE [k \in (DOMAIN a) \cup (DOMAIN b) |-> IF k \in DOMAIN b THEN b[k] ELSE a[k]]

\* obj[key] = value
Put(obj, key, value) ==
    [k \in (DOMAIN obj) \cup {key} |-> IF k = key THEN value ELSE obj[k]]

\* (obj[key] || 0) for a numeric property
OrZero(obj, key) == IF key \in DOMAIN obj THEN obj[key] ELSE 0

\* array.includes(item)
Includes(array, item) == \E i \in 1..Len(array) : array[i] = item

MathMax(a, b) == IF a >= b THEN a ELSE b
MathMin(a, b) == IF a <= b THEN a ELSE b

----------------------------------------------------------------------------
(* The state tree *)

CharIds == {"1", "2", "3"}
UnknownId == "99"
PlayerIds == {"player_a", "player_b"}
CurrentVersion == "1.0.0"

Character(name, hp, equipmentName) ==
    [name |-> name, level |-> 1, hp |-> hp, maxHp |-> hp, intimacy |-> 0,
     battleCount |-> 0, victories |-> 0,
     equipment |-> [level |-> 1, name |-> equipmentName]]

\* getInitialState(), with generatePlayerId() = playerId and Date.now() = t.
\* Volumes and text speed are in hundredths.
getInitialState(playerId, t) ==
    [version |-> CurrentVersion,
     playerId |-> playerId,
     createdAt |-> t,
     lastPlayedAt |-> t,
     currentScene |-> "title",
     currentCharacter |-> JSNull,
     currentDialogue |-> 0,
     completedScenes |-> <<>>,
     characters |-> [c \in CharIds |->
         CASE c = "1" -> Character("Misaki", 100, "basic")
           [] c = "2" -> Character("Reina", 120, "uniform")
           [] OTHER   -> Character("Aya", 150, "council")],
     player |-> [name |-> "hero", level |-> 1, totalScore |-> 0, totalPlayTime |-> 0,
                 achievements |-> <<>>,
                 statistics |-> [gamesPlayed |-> 0, gamesWon |-> 0,
                                 totalTilesCleared |-> 0, maxCombo |-> 0,
                                 perfectGames |-> 0]],
     settings |-> [bgmVolume |-> 70, seVolume |-> 80, voiceVolume |-> 80,
                   textSpeed |-> 100, autoMode |-> FALSE, fullscreen |-> FALSE,
                   language |-> "ja"],
     unlocks |-> [characters |-> <<1>>, scenes |-> <<"title", "scene_1">>,
                  endings |-> <<>>, gallery |-> <<>>, achievements |-> <<>>],
     currentGame |-> JSNull,
     flags |-> EmptyObject,
     hasUnsavedProgress |-> FALSE]

\* the values Date.now() can return next
DateNow == {t \in {now, now + 1} : t <= MaxNow}

\* this.state.characters[charId] is truthy
HasCharacter(st, charId) ==
    IsObject(st.characters) /\ charId \in DOMAIN st.characters

\* as markUnsaved, had it stamped the time without raising the flag
markUnsavedStampOnly(st, t) == [st EXCEPT !.lastPlayedAt = t]

\* markUnsaved()
markUnsaved(st, t) == [st EXCEPT !.hasUnsavedProgress = TRUE, !.lastPlayedAt = t]

\* setFlag(flagName, value): the tree after the call
setFlagTree(st, flagName, value, t) ==
    markUnsaved([st EXCEPT !.flags = Put(@, flagName, value)], t)

----------------------------------------------------------------------------
(* The event bus *)

\* new Map()
NoListeners == [e \in {} |-> <<>>]

\* on(event, callback): the map after the call
onListeners(ls, event, callback) ==
    IF event \in DOMAIN ls
    THEN [ls EXCEPT ![event] = Append(@, callback)]
    ELSE Put(ls, event, <<callback>>)

\* as IndexOf, had it been callbacks.lastIndexOf(callback)
LastIndexOf(callbacks, callback) ==
    LET found == {i \in 1..Len(callbacks) : callbacks[i] = callback}
    IN  IF found = {} THEN 0 ELSE CHOOSE i \in found : \A j \in found : i >= j

\* callbacks.indexOf(callback), counted from 1; 0 when there is none
IndexOf(callbacks, callback) ==
    LET found == {i \in 1..Len(callbacks) : callbacks[i] = callback}
    IN  IF found = {} THEN 0 ELSE CHOOSE i \in found : \A j \in found : i <= j

\* callbacks.splice(index, 1), index counted from 1
Splice(callbacks, index) ==
    [i \in 1..(Len(callbacks) - 1) |->
        IF i < index THEN callbacks[i] ELSE callbacks[i + 1]]

\* off(event, callback): the map after the call
offListeners(ls, event, callback) ==
    IF event \in DOMAIN ls /\ IndexOf(ls[event], callback) > 0
    THEN [ls EXCEPT ![event] = Splice(@, IndexOf(@, callback))]
    ELSE ls

\* What the callbacks of the model do when called.  "thrower" throws; "once"
\* unsubscribes itself with off(event, once); "setter" calls
\* setFlag('seen', true); every other callback only looks at the tree.
\* A dispatch d carries the tree, the map, what was emitted and invoked, and
\* whether an error is on its way up the stack.
Entry(kind, event, callback, depth, d) ==
    [kind |-> kind, event |-> event, callback |-> callback, depth |-> depth,
     live |-> d.tree]

RECURSIVE forEach(_, _, _, _, _, _)
RECURSIVE emit(_, _, _, _, _)

\* callback(data), line 483: the callback is entered and runs until it returns
\* or throws
CallbackBody(d, event, callback, depth, t) ==
    LET entered == [d EXCEPT !.invoked =
                        Append(@, Entry("call", event, callback, depth, d))]
    IN  CASE callback = "thrower" -> [entered EXCEPT !.thrown = TRUE]
          [] callback = "once" ->
                [entered EXCEPT !.listeners = offListeners(@, event, callback)]
          [] callback = "setter" ->
                emit([entered EXCEPT
                        !.tree = setFlagTree(@, "seen", JSBoolean(TRUE), t)],
                     "flagChanged",
                     [flagName |-> "seen",
                      oldValue |-> IF "seen" \in DOMAIN entered.tree.flags
                                   THEN entered.tree.flags["seen"]
                                   ELSE JSUndefined,
                      newValue |-> JSBoolean(TRUE)],
                     depth + 1, t)
          [] OTHER -> entered

\* as Callback, had callback(data) been called outside a try block
CallbackUncaught(d, event, callback, depth, t) ==
    CallbackBody(d, event, callback, depth, t)

\* try { callback(data) } catch (error) { console.error(...) }, lines 482-486
Callback(d, event, callback, depth, t) ==
    LET body == CallbackBody(d, event, callback, depth, t)
    IN  [body EXCEPT
            !.thrown = FALSE,
            !.invoked = Append(@, Entry(IF body.thrown THEN "caught" ELSE "return",
                                        event, callback, depth, body))]

\* this.listeners.get(event).forEach(...), from index i on: forEach visits the
\* indices below the length the array had when the loop began, skips an index
\* the array no longer has, and ends when a call throws
forEach(d, event, i, length, depth, t) ==
    IF i > length \/ d.thrown THEN d
    ELSE IF i > Len(d.listeners[event])
    THEN forEach(d, event, i + 1, length, depth, t)
    ELSE forEach(Callback(d, event, d.listeners[event][i], depth, t),
                 event, i + 1, length, depth, t)

\* as emit, had an emit made while another emit is running called no callback
emitOutermost(d, event, data, depth, t) ==
    LET called == [d EXCEPT !.emitted = Append(@, <<event, data>>)]
    IN  IF event \in DOMAIN called.listeners /\ depth = 1
        THEN forEach(called, event, 1, Len(called.listeners[event]), depth, t)
        ELSE called

\* emit(event, data)
emit(d, event, data, depth, t) ==
    LET called == [d EXCEPT !.emitted = Append(@, <<event, data>>)]
    IN  IF event \in DOMAIN called.listeners
        THEN forEach(called, event, 1, Len(called.listeners[event]), depth, t)
        ELSE called

\* the emit calls es of an operation, one after the other
RECURSIVE emitEach(_, _, _, _)
emitEach(d, es, i, t) ==
    IF i > Len(es) \/ d.thrown THEN d
    ELSE emitEach(emit(d, es[i][1], es[i][2], 1, t), es, i + 1, t)

\* an operation about to emit, its tree being st
Dispatch(st) ==
    [tree |-> st, listeners |-> listeners, emitted |-> <<>>, invoked |-> <<>>,
     thrown |-> FALSE]

----------------------------------------------------------------------------
(* Objects held by a caller *)

\* the top-level fields of a tree that hold an object or an array
CompositeFields ==
    {"completedScenes", "characters", "player", "settings", "unlocks", "flags",
     "unlockedContent", "unlockedEndings"}

\* the fields to which the operation c assigns a new object instead of writing
\* into the one it finds: updateSettings assigns this.state.settings, resetGame
\* assigns this.state and then puts the old settings object back
Replaces(c) ==
    CASE c[1] = "updateSettings" -> {"settings"}
      [] c[1] = "resetGame" -> CompositeFields \ {"settings"}
      [] OTHER -> {}

\* the held snapshot after the operation c left the live tree as tree: a write
\* into a shared object is a write into the snapshot
Held(tree, c) ==
    IF shared = {} THEN snapshot
    ELSE [k \in DOMAIN snapshot |->
            IF k \in shared \ Replaces(c) /\ k \in DOMAIN tree
            THEN tree[k] ELSE snapshot[k]]

\* the constructor
\* localStorage.getItem('mahjong_gakuen_save') when nothing is stored: null
NoItem == [kind |-> "null"]

\* new MahjongGakuenBattleStory(): nothing of initialize has run; steps lists
\* the steps of initialize that have completed, loading tells what the page
\* shows of the element 'loading', alerts counts the alert dialogs shown, and
\* listening tells that setupEventListeners has added its beforeunload listener
Constructed ==
    [pc |-> "constructed", isInitialized |-> FALSE, steps |-> <<>>,
     loading |-> "untouched", alerts |-> 0, listening |-> FALSE,
     saved |-> "never"]

Init ==
    /\ now = 0
    /\ \E p \in PlayerIds : state = getInitialState(p, 0)
    /\ emitted = <<>>
    /\ ret = JSUndefined
    /\ call = <<"constructor">>
    /\ listeners = NoListeners
    /\ invoked = <<>>
    /\ snapshot = JSNull
    /\ shared = {}
    /\ lastSaveTime = 0
    /\ storage = NoItem
    /\ app = Constructed

\* a call c that leaves the store as it is and ends with r
Asked(c, r) ==
    /\ state' = state
    /\ emitted' = <<>>
    /\ ret' = r
    /\ call' = c
    /\ now' = now
    /\ listeners' = listeners
    /\ invoked' = <<>>
    /\ snapshot' = snapshot
    /\ shared' = shared

\* an operation that leaves the tree alone, emits nothing and returns r
Query(c, r) == Asked(c, r) /\ UNCHANGED appVars

\* an operation that found nothing to do
NoOp(c) == Query(c, JSUndefined)

\* an operation that changed the tree to st at time t, made the emit calls es
\* as its last statements and returned r
Done(c, st, es, r, t) ==
    \E d \in {emitEach(Dispatch(st), es, 1, t)} :
        /\ state' = d.tree
        /\ emitted' = d.emitted
        /\ listeners' = d.listeners
        /\ invoked' = d.invoked
        /\ ret' = IF d.thrown THEN Thrown("Error") ELSE r
        /\ call' = c
        /\ now' = t
        /\ snapshot' = Held(d.tree, c)
        /\ shared' = shared \ Replaces(c)
        /\ UNCHANGED appVars

----------------------------------------------------------------------------
(* Intimacy *)

Ids == CharIds \cup {UnknownId}
Amounts == {-150, -50, 0, 50, 150}

\* updateIntimacy: the tree after the call on an existing character
updateIntimacyTree(st, charId, change, t) ==
    markUnsaved(
        [st EXCEPT !.characters[charId].intimacy =
            MathMax(0, MathMin(100, st.characters[charId].intimacy + change))], t)

updateIntimacy(charId, change) ==
    IF ~HasCharacter(state, charId)
    THEN NoOp(<<"updateIntimacy", charId, change>>)
    ELSE \E t \in DateNow :
        LET st == updateIntimacyTree(state, charId, change, t) IN
        Done(<<"updateIntimacy", charId, change>>, st,
             << <<"intimacyChanged",
                  [charId |-> charId,
                   oldValue |-> state.characters[charId].intimacy,
                   newValue |-> st.characters[charId].intimacy]>> >>,
             JSUndefined, t)

\* increaseIntimacy: the tree after the call on an existing character
increaseIntimacyTree(st, characterId, amount, t) ==
    markUnsaved(
        [st EXCEPT !.characters[characterId] =
            Put(@, "intimacy", MathMin(100, OrZero(@, "intimacy") + amount))], t)

increaseIntimacy(characterId, amount) ==
    IF ~HasCharacter(state, characterId)
    THEN NoOp(<<"increaseIntimacy", characterId, amount>>)
    ELSE \E t \in DateNow :
            Done(<<"increaseIntimacy", characterId, amount>>,
                 increaseIntimacyTree(state, characterId, amount, t),
                 <<>>, JSUndefined, t)

\* the call keeps the character's intimacy at or above -MaxDebt
MayOwe(characterId, amount) ==
    HasCharacter(state, characterId) =>
        OrZero(state.characters[characterId], "intimacy") + amount >= -MaxDebt

NextIntimacy ==
    \/ \E id \in Ids, change \in Amounts : updateIntimacy(id, change)
    \/ \E id \in Ids, amount \in Amounts :
            MayOwe(id, amount) /\ increaseIntimacy(id, amount)

SpecIntimacy == Init /\ [][NextIntimacy]_vars

----------------------------------------------------------------------------
(* Unlocks and achievements *)

Categories == {"scenes", "gallery", "achievements", "bonus"}
Items == {"scene_1", "cg_1"}

\* unlock(content), lines 695-703: the tree after the call.  A caller that
\* writes unlock(category, item) binds content to category; item is dropped.
unlockTree(st, content, t) ==
    LET unlockedContent ==
            IF "unlockedContent" \in DOMAIN st THEN st.unlockedContent ELSE <<>>
    IN  IF Includes(unlockedContent, content)
        THEN st
        ELSE markUnsaved(Put(st, "unlockedContent", Append(unlockedContent, content)), t)

unlock(category, item) ==
    \E t \in DateNow :
        LET st == unlockTree(state, category, t) IN
        Done(<<"unlock", category, item>>, st, <<>>, JSUndefined,
             IF st = state THEN now ELSE t)

\* isUnlocked(category, item)
isUnlocked(st, category, item) ==
    IF IsObject(st.unlocks) /\ category \in DOMAIN st.unlocks
    THEN Includes(st.unlocks[category], item)
    ELSE FALSE

\* Object.values(this.state.characters).every(char => char.equipment.level >= 5)
AllMaxLevel(st) == \A c \in DOMAIN st.characters : st.characters[c].equipment.level >= 5

\* the array checkAchievements builds, lines 350-367
NewAchievements(st) ==
    (IF st.player.statistics.gamesWon >= 10
        /\ ~Includes(st.unlocks.achievements, "win_10")
     THEN <<"win_10">> ELSE <<>>)
    \o
    (IF st.player.statistics.perfectGames >= 1
        /\ ~Includes(st.unlocks.achievements, "perfect_1")
     THEN <<"perfect_1">> ELSE <<>>)
    \o
    (IF AllMaxLevel(st) /\ ~Includes(st.unlocks.achievements, "all_max_equipment")
     THEN <<"all_max_equipment">> ELSE <<>>)

\* achievements.forEach(achievement => this.unlock('achievements', achievement))
RECURSIVE unlockEach(_, _, _)
unlockEach(st, achievements, t) ==
    IF achievements = <<>>
    THEN st
    ELSE unlockEach(unlockTree(st, "achievements", t), Tail(achievements), t)

\* checkAchievements(): the tree after the call
checkAchievementsTree(st, t) == unlockEach(st, NewAchievements(st), t)

checkAchievements ==
    \E t \in DateNow :
        LET st == checkAchievementsTree(state, t) IN
        Done(<<"checkAchievements">>, st, <<>>, JSArray(NewAchievements(state)),
             IF st = state THEN now ELSE t)

----------------------------------------------------------------------------
(* Scores and battle results *)

\* the counters of recorded games, added up
RECURSIVE SumBattleCount(_, _)
SumBattleCount(st, ids) ==
    IF ids = {} THEN 0
    ELSE LET c == CHOOSE c \in ids : TRUE
         IN  OrZero(st.characters[c], "battleCount") + SumBattleCount(st, ids \ {c})

Recorded(st) ==
    st.player.statistics.gamesPlayed + st.player.statistics.gamesWon
        + SumBattleCount(st, DOMAIN st.characters)

MayRecord(bound) == Recorded(state) < bound

Results == {"win", "loss", "perfect_win"}
Scores == {500, 1000}
GameDatas == {EmptyObject, [tilesCleared |-> 36, combo |-> 3, perfect |-> TRUE]}

\* updateScore(points)
updateScoreTree(st, points, t) ==
    markUnsaved(
        [st EXCEPT !.player.totalScore = @ + points,
                   !.player.statistics.gamesPlayed = @ + 1], t)

updateScore(points) ==
    \E t \in DateNow :
        LET st == updateScoreTree(state, points, t) IN
        Done(<<"updateScore", points>>, st,
             << <<"scoreUpdated",
                  [points |-> points, totalScore |-> st.player.totalScore]>> >>,
             JSUndefined, t)

\* as recordVictoryStats, had a victory not counted as a battle
recordVictoryStatsUncounted(st, charId, gameData) ==
    LET s1 == IF HasCharacter(st, charId)
              THEN [st EXCEPT !.characters[charId].victories = @ + 1]
              ELSE st
    IN  [s1 EXCEPT !.player.statistics.gamesWon = @ + 1]

\* recordVictory, lines 251-265: the tree before checkAchievements runs
recordVictoryStats(st, charId, gameData) ==
    LET s1 == IF HasCharacter(st, charId)
              THEN [st EXCEPT !.characters[charId].victories = @ + 1,
                              !.characters[charId].battleCount = @ + 1]
              ELSE st
        stats == s1.player.statistics
    IN  [s1 EXCEPT !.player.statistics =
            [stats EXCEPT
                !.gamesWon = @ + 1,
                !.totalTilesCleared = @ + OrZero(gameData, "tilesCleared"),
                !.maxCombo = IF "combo" \in DOMAIN gameData /\ gameData.combo > @
                             THEN gameData.combo ELSE @,
                !.perfectGames = IF "perfect" \in DOMAIN gameData /\ gameData.perfect
                                 THEN @ + 1 ELSE @]]

\* recordVictory(charId, gameData): the tree after the call
recordVictoryTree(st, charId, gameData, t) ==
    markUnsaved(checkAchievementsTree(recordVictoryStats(st, charId, gameData), t), t)

recordVictory(charId, gameData) ==
    \E t \in DateNow :
        Done(<<"recordVictory", charId, gameData>>,
             recordVictoryTree(state, charId, gameData, t),
             << <<"victoryRecorded", [charId |-> charId, gameData |-> gameData]>> >>,
             JSUndefined, t)

\* as recordDefeatTree, had the battle been counted for every character
recordDefeatTreeEveryone(st, charId, t) ==
    markUnsaved(
        IF HasCharacter(st, charId)
        THEN [st EXCEPT !.characters =
                [c \in DOMAIN @ |-> [@[c] EXCEPT !.battleCount = @ + 1]]]
        ELSE st, t)

\* recordDefeat(charId): the tree after the call
recordDefeatTree(st, charId, t) ==
    markUnsaved(
        IF HasCharacter(st, charId)
        THEN [st EXCEPT !.characters[charId].battleCount = @ + 1]
        ELSE st, t)

recordDefeat(charId) ==
    \E t \in DateNow :
        Done(<<"recordDefeat", charId>>, recordDefeatTree(state, charId, t),
             << <<"defeatRecorded", [charId |-> charId]>> >>, JSUndefined, t)

\* as IsWin, had a perfect win not counted as a win
IsPlainWin(result) == result = "win"

IsWin(result) == result = "win" \/ result = "perfect_win"

\* recordBattleResult(characterId, result, score): the tree after the call on an
\* existing character
recordBattleResultTree(st, characterId, result, score, t) ==
    LET char == st.characters[characterId]
        c1 == Put(char, "battleCount", OrZero(char, "battleCount") + 1)
        c2 == Put(c1, "totalScore", OrZero(c1, "totalScore") + score)
        c3 == IF IsWin(result)
              THEN Put(c2, "victories", OrZero(c2, "victories") + 1)
              ELSE c2
        stats == st.player.statistics
        s1 == IF result = "perfect_win"
              THEN Put(stats, "perfectGames", OrZero(stats, "perfectGames") + 1)
              ELSE stats
        s2 == Put(s1, "gamesPlayed", OrZero(s1, "gamesPlayed") + 1)
        s3 == IF IsWin(result)
              THEN Put(s2, "gamesWon", OrZero(s2, "gamesWon") + 1)
              ELSE s2
        player == Put([st.player EXCEPT !.statistics = s3], "totalScore",
                      OrZero(st.player, "totalScore") + score)
    IN  markUnsaved([st EXCEPT !.characters[characterId] = c3, !.player = player], t)

recordBattleResult(characterId, result, score) ==
    IF ~HasCharacter(state, characterId)
    THEN NoOp(<<"recordBattleResult", characterId, result, score>>)
    ELSE \E t \in DateNow :
                Done(<<"recordBattleResult", characterId, result, score>>,
                     recordBattleResultTree(state, characterId, result, score, t),
                     <<>>, JSUndefined, t)

NextStats ==
    \/ \E points \in Scores : MayRecord(MaxRecorded) /\ updateScore(points)
    \/ \E id \in Ids, gameData \in GameDatas :
            MayRecord(MaxRecorded) /\ recordVictory(id, gameData)
    \/ \E id \in Ids : MayRecord(MaxRecorded) /\ recordDefeat(id)
    \/ \E id \in Ids, result \in Results, score \in Scores :
            MayRecord(MaxRecorded) /\ recordBattleResult(id, result, score)

SpecStats == Init /\ [][NextStats]_vars

----------------------------------------------------------------------------
(* Equipment *)

Levels == {0, 3, 5, 6}
EquipmentNames == {"full"}

\* upgradeEquipment(charId, newLevel, equipmentName): the tree after the call on
\* an existing character; applyEquipmentBonuses has an empty body
upgradeEquipmentTree(st, charId, newLevel, equipmentName, t) ==
    markUnsaved(
        [st EXCEPT !.characters[charId].equipment =
            Put(Put(@, "level", newLevel), "name", equipmentName)], t)

upgradeEquipment(charId, newLevel, equipmentName) ==
    IF ~HasCharacter(state, charId)
    THEN NoOp(<<"upgradeEquipment", charId, newLevel, equipmentName>>)
    ELSE \E t \in DateNow :
            Done(<<"upgradeEquipment", charId, newLevel, equipmentName>>,
                 upgradeEquipmentTree(state, charId, newLevel, equipmentName, t),
                 << <<"equipmentUpgraded",
                      [charId |-> charId,
                       oldLevel |-> state.characters[charId].equipment.level,
                       newLevel |-> newLevel,
                       equipmentName |-> equipmentName]>> >>,
                 JSUndefined, t)

\* setCharacterLevel(characterId, level): the tree after the call on an existing
\* character
setCharacterLevelTree(st, characterId, level, t) ==
    LET char == st.characters[characterId]
        equipment == IF "equipment" \in DOMAIN char THEN char.equipment ELSE EmptyObject
    IN  markUnsaved(
            [st EXCEPT !.characters[characterId] =
                Put(char, "equipment", Put(equipment, "level", level))], t)

setCharacterLevel(characterId, level) ==
    IF ~HasCharacter(state, characterId)
    THEN NoOp(<<"setCharacterLevel", characterId, level>>)
    ELSE \E t \in DateNow :
            Done(<<"setCharacterLevel", characterId, level>>,
                 setCharacterLevelTree(state, characterId, level, t),
                 <<>>, JSUndefined, t)

\* char.equipment.level || 1
LevelOrOne(equipment) ==
    IF "level" \in DOMAIN equipment /\ equipment.level # 0 THEN equipment.level ELSE 1

\* as CanUpgrade, had the comparison been currentLevel <= 5
CanUpgradeAtFive(st, characterId) ==
    /\ HasCharacter(st, characterId)
    /\ "equipment" \in DOMAIN st.characters[characterId]
    /\ LevelOrOne(st.characters[characterId].equipment) <= 5

\* upgradeCharacterEquipment(characterId) raises the level
CanUpgrade(st, characterId) ==
    /\ HasCharacter(st, characterId)
    /\ "equipment" \in DOMAIN st.characters[characterId]
    /\ LevelOrOne(st.characters[characterId].equipment) < 5

upgradeCharacterEquipmentTree(st, characterId, t) ==
    markUnsaved(
        [st EXCEPT !.characters[characterId].equipment =
            Put(@, "level", LevelOrOne(@) + 1)], t)

upgradeCharacterEquipment(characterId) ==
    IF ~CanUpgrade(state, characterId)
    THEN Query(<<"upgradeCharacterEquipment", characterId>>, JSBoolean(FALSE))
    ELSE \E t \in DateNow :
            Done(<<"upgradeCharacterEquipment", characterId>>,
                 upgradeCharacterEquipmentTree(state, characterId, t),
                 <<>>, JSBoolean(TRUE), t)

EquipIds == {"1", "2", UnknownId}

NextEquip ==
    \/ \E id \in EquipIds, newLevel \in Levels, name \in EquipmentNames :
            upgradeEquipment(id, newLevel, name)
    \/ \E id \in EquipIds, level \in Levels : setCharacterLevel(id, level)
    \/ \E id \in EquipIds : upgradeCharacterEquipment(id)

SpecEquip == Init /\ [][NextEquip]_vars

----------------------------------------------------------------------------
(* Ending *)

\* getDefeatedCharacters()
getDefeatedCharacters(st) ==
    {c \in DOMAIN st.characters : st.characters[c].victories > 0}

\* checkEndingConditions(), lines 687-690: what the call returns
checkEndingConditionsValue(st) ==
    JSBoolean(Cardinality(getDefeatedCharacters(st)) >= 3)

\* as checkEndingConditionsTree, had the evaluation recorded the ending it found
checkEndingConditionsTreeRecording(st) ==
    IF checkEndingConditionsValue(st) = JSBoolean(TRUE)
    THEN markUnsaved(Put(st, "unlockedEndings", <<"true_ending">>), st.lastPlayedAt)
    ELSE st

\* checkEndingConditions(), lines 687-690: the tree after the call
checkEndingConditionsTree(st) == st

checkEndingConditions ==
    /\ Done(<<"checkEndingConditions">>, checkEndingConditionsTree(state), <<>>,
            checkEndingConditionsValue(state), now)

\* games recorded in the ending runs: one victory for each character
MaxEndingRecorded == 5

NextEnding ==
    \/ checkEndingConditions
    \/ \E id \in CharIds :
            MayRecord(MaxEndingRecorded) /\ recordVictory(id, EmptyObject)
    \/ \E id \in CharIds : MayRecord(MaxEndingRecorded) /\ recordDefeat(id)

SpecEnding == Init /\ [][NextEnding]_vars

----------------------------------------------------------------------------
(* Scenes and flags *)

Scenes == {"title", "scene_1"}
FlagNames == {"met"}
FlagValues == {JSBoolean(TRUE), JSBoolean(FALSE)}

\* as changeSceneTree, had the previous scene been recorded without the
\* includes test
changeSceneTreeAlwaysRecorded(st, sceneName, t) ==
    markUnsaved([st EXCEPT !.currentScene = sceneName,
                           !.completedScenes = Append(@, st.currentScene)], t)

\* changeScene(sceneName, data): the tree after the call; a scene name is a
\* non-empty string, hence truthy
changeSceneTree(st, sceneName, t) ==
    LET previousScene == st.currentScene
        s1 == [st EXCEPT !.currentScene = sceneName, !.lastPlayedAt = t]
        s2 == IF ~Includes(s1.completedScenes, previousScene)
              THEN [s1 EXCEPT !.completedScenes = Append(@, previousScene)]
              ELSE s1
    IN  markUnsaved(s2, t)

changeScene(sceneName) ==
    \E t \in DateNow :
        Done(<<"changeScene", sceneName>>, changeSceneTree(state, sceneName, t),
             << <<"sceneChanged",
                  [previous |-> state.currentScene, current |-> sceneName,
                   data |-> EmptyObject]>> >>,
             JSUndefined, t)

setFlag(flagName, value) ==
    \E t \in DateNow :
        Done(<<"setFlag", flagName, value>>, setFlagTree(state, flagName, value, t),
             << <<"flagChanged",
                  [flagName |-> flagName,
                   oldValue |-> IF flagName \in DOMAIN state.flags
                                THEN state.flags[flagName] ELSE JSUndefined,
                   newValue |-> value]>> >>,
             JSUndefined, t)

----------------------------------------------------------------------------
(* Load and migration *)

\* migrateState(oldState), with the fresh default tree's playerId and time
migrateState(oldState, playerId, t) == Spread(getInitialState(playerId, t), oldState)

\* savedState.version throws a TypeError: savedState is null or undefined
VersionThrows(savedState) == savedState = JSNull \/ savedState = JSUndefined

\* savedState.version !== this.state.version
VersionDiffers(st, savedState) ==
    IF IsObject(savedState) /\ "version" \in DOMAIN savedState
    THEN savedState.version # st.version
    ELSE TRUE

\* as loadStateTree, had hasUnsavedProgress been left as merged
loadStateTreeFlagKept(st, savedState, playerId, t) ==
    LET saved == IF VersionDiffers(st, savedState)
                 THEN migrateState(savedState, playerId, t)
                 ELSE savedState
    IN  Put(Spread(st, saved), "lastPlayedAt", t)

\* loadState(savedState), lines 141-149: the tree when the try block completes
loadStateTree(st, savedState, playerId, t) ==
    LET saved == IF VersionDiffers(st, savedState)
                 THEN migrateState(savedState, playerId, t)
                 ELSE savedState
        merged == Spread(st, saved)
    IN  Put(Put(merged, "lastPlayedAt", t), "hasUnsavedProgress", FALSE)

\* as loadStateFailedTree, had the dirty flag been cleared before the version check
loadStateFailedTreeCleared(st, savedState) == [st EXCEPT !.hasUnsavedProgress = FALSE]

\* loadState(savedState), lines 154-157: the tree when the catch block rethrows
loadStateFailedTree(st, savedState) == st

\* loadState(savedState); held tells that savedState is the object the caller
\* holds as its snapshot.  The spread of line 147 copies the top-level fields,
\* so the live tree takes over the nested objects of savedState.
loadStateCall(savedState, held) ==
    IF VersionThrows(savedState)
    THEN /\ state' = loadStateFailedTree(state, savedState)
         /\ emitted' = <<>>
         /\ ret' = Thrown("TypeError")
         /\ call' = <<"loadState", savedState>>
         /\ now' = now
         /\ listeners' = listeners
         /\ invoked' = <<>>
         /\ snapshot' = snapshot
         /\ shared' = shared
    ELSE \E t \in DateNow :
            \E p \in IF VersionDiffers(state, savedState)
                     THEN PlayerIds ELSE {state.playerId} :
              \E loaded \in {loadStateTree(state, savedState, p, t)} :
              \E d \in {emit(Dispatch(loaded), "stateLoaded", loaded, 1, t)} :
                LET assigned == IF shared = {} THEN {}
                                ELSE IF VersionDiffers(state, savedState)
                                THEN DOMAIN migrateState(savedState, p, t)
                                ELSE DOMAIN OwnProps(savedState)
                    adopted == IF held
                               THEN CompositeFields \cap DOMAIN OwnProps(savedState)
                               ELSE {}
                IN  /\ state' = d.tree
                    /\ emitted' = [d.emitted EXCEPT ![1] = <<"stateLoaded", state'>>]
                    /\ listeners' = d.listeners
                    /\ invoked' = d.invoked
                    /\ ret' = IF d.thrown THEN Thrown("Error") ELSE JSUndefined
                    /\ call' = <<"loadState", savedState>>
                    /\ now' = t
                    /\ shared' = (shared \ assigned) \cup adopted
                    /\ snapshot' =
                            IF shared' = {} THEN snapshot
                            ELSE [k \in DOMAIN snapshot |->
                                    IF k \in shared' THEN d.tree[k] ELSE snapshot[k]]

\* loadState(savedState) called on the store directly
loadStateOf(savedState, held) ==
    loadStateCall(savedState, held) /\ UNCHANGED appVars

\* loadState(savedState) with a snapshot read from storage
loadState(savedState) == loadStateOf(savedState, FALSE)

\* obj without the keys ks; obj with the keys ks alone
Without(obj, ks) == [k \in (DOMAIN obj) \ ks |-> obj[k]]
Only(obj, ks) == [k \in (DOMAIN obj) \cap ks |-> obj[k]]

\* a complete tree saved in an earlier session
SavedTree ==
    [getInitialState("player_s", 0) EXCEPT
        !.currentScene = "scene_2",
        !.completedScenes = <<"title", "scene_1">>,
        !.flags = [met |-> JSBoolean(TRUE)],
        !.unlocks.gallery = <<"cg_1">>,
        !.characters["1"].intimacy = 50]

OldVersion == "0.9.0"

WellFormedSnapshots ==
    { SavedTree,
      Without([SavedTree EXCEPT !.version = OldVersion], {"flags"}),
      Only(SavedTree, {"version", "currentScene"}),
      Only(SavedTree, {"currentScene", "flags"}),
      Put(Only(SavedTree, {"version", "flags"}), "chapter", JSNumber(2)) }

\* snapshots that are not of the expected shape
MalformedSnapshots ==
    { JSNull, JSUndefined, JSNumber(42),
      Put(Only(SavedTree, {"version"}), "characters", JSNumber(42)),
      Put(Only([SavedTree EXCEPT !.version = OldVersion], {"version"}),
          "player", JSString("corrupt")),
      Put(Only(SavedTree, {"currentScene"}), "unlocks", JSNull) }

Snapshots == WellFormedSnapshots \cup MalformedSnapshots

NextLoad ==
    \/ \E savedState \in Snapshots : loadState(savedState)
    \/ changeScene("scene_1")
    \/ setFlag("met", JSBoolean(FALSE))
    \/ unlock("gallery", "cg_1")

SpecLoad == Init /\ [][NextLoad]_vars

----------------------------------------------------------------------------
(* Unlocks alone, and achievements with the games that earn them *)

NextUnlock ==
    \/ \E category \in Categories, item \in Items : unlock(category, item)
    \/ \E sceneName \in Scenes : changeScene(sceneName)

SpecUnlock == Init /\ [][NextUnlock]_vars

NextAchieve ==
    \/ checkAchievements
    \/ \E id \in Ids, result \in Results :
            MayRecord(MaxRecorded) /\ recordBattleResult(id, result, 1000)
    \/ \E id \in Ids, gameData \in GameDatas :
            MayRecord(MaxRecorded) /\ recordVictory(id, gameData)
    \/ \E id \in CharIds : upgradeEquipment(id, 5, "full")

SpecAchieve == Init /\ [][NextAchieve]_vars

----------------------------------------------------------------------------
(* Snapshots of the live tree *)

\* the number NaN
JSNaN == [type |-> "NaN"]

\* JSON.parse(JSON.stringify(obj)) of an object of primitives: a property whose
\* value is undefined is left out, NaN is written as null
JSONObject(obj) ==
    [k \in {j \in DOMAIN obj : IsObject(obj[j]) \/ obj[j].type # "undefined"} |->
        IF ~IsObject(obj[k]) /\ obj[k].type = "NaN" THEN JSNull ELSE obj[k]]

\* getCurrentState(): the flags hold the caller's values; every other value of
\* the tree is a finite number, a string, a boolean, null, an array or an object
\* of these, which JSON writes and reads back unchanged
getCurrentState(st) ==
    IF IsObject(st) /\ "flags" \in DOMAIN st /\ IsObject(st.flags)
    THEN [st EXCEPT !.flags = JSONObject(@)]
    ELSE st

\* values a caller stores in a flag
StoredValues == FlagValues \cup {JSNumber(3), JSNaN, JSUndefined}

NextRoundTrip ==
    \/ loadState(getCurrentState(state))
    \/ \E value \in StoredValues : setFlag("met", value)
    \/ \E sceneName \in Scenes : changeScene(sceneName)
    \/ \E id \in CharIds : MayRecord(MaxRecorded) /\ recordBattleResult(id, "win", 500)
    \/ upgradeEquipment("1", 3, "full")

SpecRoundTrip == Init /\ [][NextRoundTrip]_vars

----------------------------------------------------------------------------
(* Character fields, endings, settings, play time and reset *)

\* the updates a caller hands to updateCharacter
Updates ==
    { [intimacy |-> 150],
      [victories |-> 3],
      [equipment |-> [level |-> 9, name |-> "full"]],
      [nickname |-> "Mi"] }

\* updateCharacter(charId, updates): the tree after the call
updateCharacterTree(st, charId, updates, t) ==
    markUnsaved([st EXCEPT !.characters[charId] = Spread(@, updates)], t)

updateCharacter(charId, updates) ==
    IF ~HasCharacter(state, charId)
    THEN NoOp(<<"updateCharacter", charId, updates>>)
    ELSE \E t \in DateNow :
            LET st == updateCharacterTree(state, charId, updates, t) IN
            Done(<<"updateCharacter", charId, updates>>, st,
                 << <<"characterUpdated",
                      [charId |-> charId, oldState |-> state.characters[charId],
                       newState |-> st.characters[charId]]>> >>,
                 JSUndefined, t)

EndingTypes == {"true_ending"}

\* unlockEnding(endingType): the tree after the call
unlockEndingTree(st, endingType, t) ==
    LET unlockedEndings ==
            IF "unlockedEndings" \in DOMAIN st THEN st.unlockedEndings ELSE <<>>
    IN  IF Includes(unlockedEndings, endingType)
        THEN st
        ELSE markUnsaved(Put(st, "unlockedEndings", Append(unlockedEndings, endingType)), t)

unlockEnding(endingType) ==
    \E t \in DateNow :
        LET st == unlockEndingTree(state, endingType, t) IN
        Done(<<"unlockEnding", endingType>>, st, <<>>, JSUndefined,
             IF st = state THEN now ELSE t)

\* the settings a caller hands to updateSettings
SettingsUpdates == {[bgmVolume |-> 50], [fullscreen |-> TRUE]}

\* updateSettings(settings): the tree after the call
updateSettingsTree(st, settings, t) ==
    markUnsaved([st EXCEPT !.settings = Spread(@, settings)], t)

updateSettings(settings) ==
    \E t \in DateNow :
        LET st == updateSettingsTree(state, settings, t) IN
        Done(<<"updateSettings", settings>>, st,
             << <<"settingsChanged", st.settings>> >>, JSUndefined, t)

\* updatePlayTime(seconds): the tree after the call
updatePlayTimeTree(st, seconds, t) ==
    markUnsaved([st EXCEPT !.player.totalPlayTime = @ + seconds], t)

updatePlayTime(seconds) ==
    \E t \in DateNow :
        Done(<<"updatePlayTime", seconds>>, updatePlayTimeTree(state, seconds, t),
             <<>>, JSUndefined, t)

\* as resetGameTree, had the settings not been carried over
resetGameTreeAllDefaults(st, t) == markUnsaved(getInitialState(st.playerId, t), t)

\* resetGame(): the tree after the call; the settings and the player id are kept
resetGameTree(st, t) ==
    markUnsaved([getInitialState(st.playerId, t) EXCEPT !.settings = st.settings], t)

resetGame ==
    \E t \in DateNow :
        Done(<<"resetGame">>, resetGameTree(state, t),
             << <<"gameReset", EmptyObject>> >>, JSUndefined, t)

\* the tree holds no unsaved change: the constructor's tree or one just loaded
Clean == ~state.hasUnsavedProgress

\* every mutation, each tried on a tree without unsaved changes
NextMutations ==
    \/ loadState(SavedTree)
    \/ Clean /\ changeScene("scene_1")
    \/ \E id \in {"1", UnknownId}, updates \in Updates :
            Clean /\ updateCharacter(id, updates)
    \/ \E id \in {"1", UnknownId} : Clean /\ upgradeEquipment(id, 3, "full")
    \/ Clean /\ updateScore(500)
    \/ \E id \in {"1", UnknownId} : Clean /\ updateIntimacy(id, 50)
    \/ \E id \in {"1", UnknownId} : Clean /\ increaseIntimacy(id, 50)
    \/ Clean /\ setFlag("met", JSBoolean(FALSE))
    \/ Clean /\ unlock("gallery", "cg_1")
    \/ Clean /\ unlockEnding("true_ending")
    \/ \E id \in {"1", UnknownId} : Clean /\ recordBattleResult(id, "win", 500)
    \/ \E id \in {"1", UnknownId} : Clean /\ recordVictory(id, EmptyObject)
    \/ \E id \in {"1", UnknownId} : Clean /\ recordDefeat(id)
    \/ \E id \in {"1", UnknownId} : Clean /\ setCharacterLevel(id, 5)
    \/ \E id \in {"1", UnknownId} : Clean /\ upgradeCharacterEquipment(id)
    \/ \E settings \in SettingsUpdates : Clean /\ updateSettings(settings)
    \/ Clean /\ updatePlayTime(60)
    \/ Clean /\ resetGame

SpecMutations == Init /\ [][NextMutations]_vars

----------------------------------------------------------------------------
(* Battles alone *)

MaxBattles == 5

NextBattle ==
    \E id \in Ids, result \in Results :
        /\ state.player.statistics.gamesPlayed < MaxBattles
        /\ recordBattleResult(id, result, 1000)

SpecBattle == Init /\ [][NextBattle]_vars

----------------------------------------------------------------------------
(* Battles, victories and defeats together *)

MaxTally == 5

NextTally ==
    \/ \E id \in Ids, result \in Results :
            MayRecord(MaxTally) /\ recordBattleResult(id, result, 1000)
    \/ \E id \in Ids : MayRecord(MaxTally) /\ recordVictory(id, EmptyObject)
    \/ \E id \in Ids : MayRecord(MaxTally) /\ recordDefeat(id)

SpecTally == Init /\ [][NextTally]_vars

----------------------------------------------------------------------------
(* Scene changes alone *)

StoryScenes == {"title", "scene_1", "scene_2", "ending"}

NextScene == \E sceneName \in StoryScenes : changeScene(sceneName)

SpecScene == Init /\ [][NextScene]_vars

----------------------------------------------------------------------------
(* Reset after play *)

NextReset ==
    \/ resetGame
    \/ \E settings \in SettingsUpdates : updateSettings(settings)
    \/ setFlag("met", JSBoolean(TRUE))
    \/ unlock("gallery", "cg_1")
    \/ unlockEnding("true_ending")
    \/ changeScene("scene_1")
    \/ MayRecord(MaxRecorded) /\ recordBattleResult("1", "win", 500)

SpecReset == Init /\ [][NextReset]_vars

----------------------------------------------------------------------------
(* Subscriptions *)

MaxListeners == 3

\* the registrations of the map, counted
RECURSIVE CountListeners(_, _)
CountListeners(ls, events) ==
    IF events = {} THEN 0
    ELSE LET e == CHOOSE e \in events : TRUE
         IN  Len(ls[e]) + CountListeners(ls, events \ {e})

MayRegister == CountListeners(listeners, DOMAIN listeners) < MaxListeners

\* an operation on the map of listeners alone
Registered(c, ls) ==
    /\ listeners' = ls
    /\ state' = state
    /\ emitted' = <<>>
    /\ invoked' = <<>>
    /\ ret' = JSUndefined
    /\ call' = c
    /\ now' = now
    /\ snapshot' = snapshot
    /\ shared' = shared
    /\ UNCHANGED appVars

on(event, callback) ==
    /\ Registered(<<"on", event, callback>>, onListeners(listeners, event, callback))

off(event, callback) ==
    /\ Registered(<<"off", event, callback>>, offListeners(listeners, event, callback))

\* the operations on the bus, for the subscriptions subs callers make
NextBusOf(subs) ==
    \/ \E s \in subs : MayRegister /\ on(s[1], s[2])
    \/ \E s \in subs : off(s[1], s[2])
    \/ changeScene("scene_1")
    \/ setFlag("met", JSBoolean(TRUE))

\* callbacks that look at the tree, and one that unsubscribes itself
Subscriptions ==
    ({"sceneChanged"} \X {"logA", "logB", "once"}) \cup {<<"flagChanged", "logA">>}

NextBus == NextBusOf(Subscriptions)

SpecBus == Init /\ [][NextBus]_vars

----------------------------------------------------------------------------
(* Callbacks that throw *)

ThrowingSubscriptions ==
    ({"sceneChanged"} \X {"thrower", "logA"}) \cup {<<"flagChanged", "thrower">>}

NextThrow == NextBusOf(ThrowingSubscriptions)

SpecThrow == Init /\ [][NextThrow]_vars

----------------------------------------------------------------------------
(* Callbacks that call back into the store *)

\* a callback that calls setFlag is not subscribed to flagChanged, where it
\* would call itself without end
NestingSubscriptions ==
    ({"sceneChanged"} \X {"setter", "logA"}) \cup {<<"flagChanged", "logB">>}

NextNested == NextBusOf(NestingSubscriptions)

SpecNested == Init /\ [][NextNested]_vars

----------------------------------------------------------------------------
(* Loading with subscribers *)

LoadSubscriptions == {"stateLoaded"} \X {"logA", "setter"}

PartialSnapshot == Only(SavedTree, {"version", "currentScene"})

NextLoadBus ==
    \/ \E s \in LoadSubscriptions : MayRegister /\ on(s[1], s[2])
    \/ \E savedState \in {SavedTree, PartialSnapshot, JSNull} : loadState(savedState)
    \/ setFlag("met", JSBoolean(FALSE))

SpecLoadBus == Init /\ [][NextLoadBus]_vars

----------------------------------------------------------------------------
(* A caller that holds a snapshot *)

\* a step of the caller, outside the store
Outside(c, st, snap, sh) ==
    /\ state' = st
    /\ snapshot' = snap
    /\ shared' = sh
    /\ call' = c
    /\ ret' = JSUndefined
    /\ emitted' = <<>>
    /\ invoked' = <<>>
    /\ listeners' = listeners
    /\ now' = now
    /\ UNCHANGED appVars

\* const snapshot = getCurrentState(): every object of the result is new
getCurrentStateHeld ==
    /\ Outside(<<"getCurrentState">>, state, getCurrentState(state), {})

\* the parts of its snapshot the caller writes to
EditedFields == {"flags", "characters", "settings"}

\* snapshot.flags.edited = true; snapshot.characters[1].intimacy = 99;
\* snapshot.settings.bgmVolume = 0
Edited(tree, field) ==
    CASE field = "flags" -> [tree EXCEPT !.flags = Put(@, "edited", JSBoolean(TRUE))]
      [] field = "characters" -> [tree EXCEPT !.characters["1"].intimacy = 99]
      [] OTHER -> [tree EXCEPT !.settings.bgmVolume = 0]

\* the caller writes to its snapshot; a write into a shared object is a write
\* into the live tree
editSnapshot(field) ==
    /\ snapshot # JSNull
    /\ LET edited == Edited(snapshot, field)
       IN  Outside(<<"editSnapshot", field>>,
                   IF field \in shared
                   THEN [state EXCEPT ![field] = edited[field]]
                   ELSE state,
                   edited, shared)

\* loadState(snapshot) with the snapshot the caller holds
loadStateHeld ==
    /\ snapshot # JSNull
    /\ loadStateOf(snapshot, TRUE)

NextSnapshot ==
    \/ getCurrentStateHeld
    \/ \E field \in EditedFields : editSnapshot(field)
    \/ loadStateHeld
    \/ setFlag("met", JSBoolean(TRUE))
    \/ updateSettings([fullscreen |-> TRUE])
    \/ updateIntimacy("1", 50)

SpecSnapshot == Init /\ [][NextSnapshot]_vars

----------------------------------------------------------------------------
(* Reading flags *)

\* as getFlagValue, had it been this.state.flags[flagName] || defaultValue
getFlagValueTruthy(st, flagName, defaultValue) ==
    IF /\ flagName \in DOMAIN st.flags
       /\ st.flags[flagName].type \notin {"undefined", "NaN"}
       /\ st.flags[flagName] # JSBoolean(FALSE)
    THEN st.flags[flagName]
    ELSE defaultValue

\* getFlag(flagName, defaultValue): the value returned
getFlagValue(st, flagName, defaultValue) ==
    IF flagName \in DOMAIN st.flags /\ st.flags[flagName].type # "undefined"
    THEN st.flags[flagName]
    ELSE defaultValue

getFlag(flagName, defaultValue) ==
    /\ Query(<<"getFlag", flagName, defaultValue>>,
             getFlagValue(state, flagName, defaultValue))

\* the defaults a caller passes to getFlag
DefaultValues == {JSBoolean(FALSE), JSString("none")}

NextFlags ==
    \/ \E flagName \in {"met", "seen"}, value \in StoredValues : setFlag(flagName, value)
    \/ \E flagName \in {"met", "seen"}, defaultValue \in DefaultValues :
            getFlag(flagName, defaultValue)

SpecFlags == Init /\ [][NextFlags]_vars

----------------------------------------------------------------------------
(* Mutations addressed to one character *)

MaxAddressed == 2

AddressedIds == {"2", UnknownId}

\* the mutations that take a character id, on the constructor's tree or on a
\* loaded one
NextAddressed ==
    \/ loadState(SavedTree)
    \/ \E id \in AddressedIds : updateCharacter(id, [intimacy |-> 150])
    \/ \E id \in AddressedIds : upgradeEquipment(id, 3, "full")
    \/ \E id \in AddressedIds \cup {"1"} : updateIntimacy(id, 50)
    \/ \E id \in AddressedIds : increaseIntimacy(id, 50)
    \/ \E id \in AddressedIds : setCharacterLevel(id, 5)
    \/ \E id \in AddressedIds : upgradeCharacterEquipment(id)
    \/ \E id \in AddressedIds :
            MayRecord(MaxAddressed) /\ recordBattleResult(id, "win", 500)
    \/ \E id \in AddressedIds : MayRecord(MaxAddressed) /\ recordDefeat(id)

SpecAddressed == Init /\ [][NextAddressed]_vars

----------------------------------------------------------------------------
(* The application: initialize, loadSaveData, saveGame and leaving the page *)

\* texts the item of localStorage can hold: the empty string, a text JSON.parse
\* rejects, and the text JSON.stringify writes for a value, which carries what
\* JSON.parse reads back from it
EmptyText == [kind |-> "empty"]
MalformedText == [kind |-> "malformed"]
JSONStringify(value) == [kind |-> "json", value |-> getCurrentState(value)]

\* if (saveData): null and the empty string are falsy
Truthy(saveData) == saveData.kind \notin {"null", "empty"}

\* JSON.parse(saveData) throws a SyntaxError
ParseThrows(saveData) == saveData.kind # "json"

\* the try block of loadSaveData throws on the text saveData
LoadThrows(saveData) ==
    ParseThrows(saveData) \/ VersionThrows(saveData.value)

\* as Discard, had the catch block left the item in place
DiscardNothing(saveData) == saveData

\* localStorage.removeItem('mahjong_gakuen_save') in the catch block of
\* loadSaveData: what the item is afterwards
Discard(saveData) == NoItem

\* showLoading(show) on the page: the element 'loading' may be missing, and
\* then nothing is shown or hidden
showLoading(loading, show, exists) ==
    IF ~exists THEN "missing" ELSE IF show THEN "shown" ELSE "hidden"

\* the element 'loading' is on the page, as far as the earlier calls tell
LoadingExists(a) == a.loading # "missing"

\* as showError, had it shown the alert without hiding the loading indicator
showErrorAlertOnly(a) == [a EXCEPT !.alerts = @ + 1]

\* showError(message): hides the loading indicator and shows an alert
showError(a) ==
    [a EXCEPT !.loading = showLoading(@, FALSE, LoadingExists(a)),
              !.alerts = @ + 1]

\* the catch block of initialize, lines 800-803
initializeFailed(a) == [showError(a) EXCEPT !.pc = "done"]

\* a step of initialize that is done by code outside the store: it completes,
\* and initialize goes on to next, or it throws or rejects, and the catch block
\* runs
ExternalStep(step, next) ==
    /\ app.pc = step
    /\ \E ok \in BOOLEAN :
            app' = IF ok
                   THEN [app EXCEPT !.pc = next, !.steps = Append(@, step)]
                   ELSE initializeFailed(app)
    /\ Asked(<<step>>, JSUndefined)
    /\ UNCHANGED <<lastSaveTime, storage>>

\* initialize() up to its first await: showLoading(true), then loadGameData
\* starts to load the CSV files
initialize ==
    /\ app.pc = "constructed"
    /\ \E exists \in BOOLEAN :
            app' = [app EXCEPT !.pc = "loadGameData",
                               !.loading = showLoading(@, TRUE, exists)]
    /\ Asked(<<"initialize">>, JSUndefined)
    /\ UNCHANGED <<lastSaveTime, storage>>

\* await this.loadGameData(): the CSV files are loaded and validated
loadGameData == ExternalStep("loadGameData", "audioManager.initialize")

\* await this.audioManager.initialize()
audioManagerInitialize == ExternalStep("audioManager.initialize", "registerScenes")

\* this.registerScenes()
registerScenes == ExternalStep("registerScenes", "setupEventListeners")

\* this.setupEventListeners(): the listeners of the window are added
setupEventListeners ==
    /\ app.pc = "setupEventListeners"
    /\ app' = [app EXCEPT !.pc = "loadSaveData",
                          !.steps = Append(@, "setupEventListeners"),
                          !.listening = TRUE]
    /\ Asked(<<"setupEventListeners">>, JSUndefined)
    /\ UNCHANGED <<lastSaveTime, storage>>

\* this.loadSaveData(), lines 903-916
loadSaveData ==
    /\ app.pc = "loadSaveData"
    /\ app' = [app EXCEPT !.pc = "sceneManager.changeScene",
                          !.steps = Append(@, "loadSaveData")]
    /\ lastSaveTime' = lastSaveTime
    /\ IF ~Truthy(storage)
       THEN /\ Asked(<<"loadSaveData">>, JSUndefined)
            /\ storage' = storage
       ELSE IF ParseThrows(storage)
       THEN /\ Asked(<<"loadSaveData">>, JSUndefined)
            /\ storage' = Discard(storage)
       ELSE /\ loadStateCall(storage.value, FALSE)
            /\ storage' = IF VersionThrows(storage.value)
                          THEN Discard(storage) ELSE storage

\* await this.sceneManager.changeScene('title') and the rest of the try block
sceneManagerChangeScene ==
    /\ app.pc = "sceneManager.changeScene"
    /\ \E ok \in BOOLEAN :
            app' = IF ok
                   THEN [app EXCEPT
                            !.pc = "done",
                            !.steps = Append(@, "sceneManager.changeScene"),
                            !.isInitialized = TRUE,
                            !.loading = showLoading(@, FALSE, LoadingExists(app))]
                   ELSE initializeFailed(app)
    /\ Asked(<<"sceneManager.changeScene">>, JSUndefined)
    /\ UNCHANGED <<lastSaveTime, storage>>


\* saveGame(), lines 1011-1019; written tells whether localStorage.setItem
\* stored the text or threw, which the catch block logs
saveGameApp(a, written) == [a EXCEPT !.saved = IF written THEN "saved" ELSE "failed"]

saveGameStorage(st, item, written) ==
    IF written THEN JSONStringify(getCurrentState(st)) ELSE item

saveGame ==
    /\ app.pc = "done" /\ app.isInitialized
    /\ \E written \in BOOLEAN :
        /\ app' = saveGameApp(app, written)
        /\ storage' = saveGameStorage(state, storage, written)
    /\ Asked(<<"saveGame">>, JSUndefined)
    /\ lastSaveTime' = lastSaveTime

\* initialize is waiting for a step outside the store, or has ended: the page
\* can handle other events
Idle == app.pc \in {"loadGameData", "audioManager.initialize",
                    "sceneManager.changeScene", "done"}

\* the page is about to be left.  The listener of lines 1067-1071, added when
\* the script was loaded, runs first: shutdown() calls saveGame().  The listener
\* of lines 890-895, added by setupEventListeners, runs after it and asks for a
\* confirmation, by setting event.returnValue, when hasUnsavedProgress() is true
beforeunload ==
    /\ Idle
    /\ \E written \in BOOLEAN :
        /\ app' = saveGameApp(app, written)
        /\ storage' = saveGameStorage(state, storage, written)
    /\ Asked(<<"beforeunload">>,
             IF app.listening /\ state.hasUnsavedProgress = TRUE
             THEN JSString("unsaved progress") ELSE JSUndefined)
    /\ lastSaveTime' = lastSaveTime

\* markSaved(), lines 448-451
markSavedTree(st) == [st EXCEPT !.hasUnsavedProgress = FALSE]

markSaved ==
    \E t \in DateNow :
        /\ state' = markSavedTree(state)
        /\ lastSaveTime' = t
        /\ now' = t
        /\ call' = <<"markSaved">>
        /\ ret' = JSUndefined
        /\ emitted' = <<>>
        /\ invoked' = <<>>
        /\ UNCHANGED <<listeners, snapshot, shared, storage, app>>

\* hasUnsavedProgress(), lines 441-443
hasUnsavedProgress ==
    Query(<<"hasUnsavedProgress">>, JSBoolean(state.hasUnsavedProgress))

\* what an earlier visit of the page, or anything else with access to the
\* storage, has left in the item before the script starts
StoredTexts ==
    {EmptyText, MalformedText, JSONStringify(JSNull), JSONStringify(SavedTree)}

stored(text) ==
    /\ app.pc = "constructed"
    /\ storage = NoItem
    /\ storage' = text
    /\ Asked(<<"localStorage.setItem">>, JSUndefined)
    /\ UNCHANGED <<lastSaveTime, app>>

\* the game has started: the scenes call the store
Started == app.pc = "done" /\ app.isInitialized

NextApp ==
    \/ \E text \in StoredTexts : stored(text)
    \/ initialize
    \/ loadGameData
    \/ audioManagerInitialize
    \/ registerScenes
    \/ setupEventListeners
    \/ loadSaveData
    \/ sceneManagerChangeScene
    \/ Started /\ setFlag("met", JSBoolean(TRUE))
    \/ Started /\ hasUnsavedProgress
    \/ Started /\ markSaved
    \/ saveGame
    \/ beforeunload

SpecApp == Init /\ [][NextApp]_vars

----------------------------------------------------------------------------
(* Every operation *)

Next ==
    \/ NextIntimacy
    \/ NextStats
    \/ NextEquip
    \/ NextEnding
    \/ NextLoad
    \/ NextUnlock
    \/ NextAchieve
    \/ NextRoundTrip
    \/ NextMutations
    \/ NextBattle
    \/ NextTally
    \/ NextScene
    \/ NextReset
    \/ NextBus
    \/ NextThrow
    \/ NextNested
    \/ NextLoadBus
    \/ NextSnapshot
    \/ NextFlags
    \/ NextAddressed
    \/ NextApp

Spec == Init /\ [][Next]_vars

----------------------------------------------------------------------------
(* Properties *)

\* C1: after any sequence of updateIntimacy and increaseIntimacy calls, with any
\* integer argument, every character's intimacy is within [0,100].
C1_IntimacyWithinRange ==
    \A c \in CharIds : state.characters[c].intimacy \in 0..100

\* C2: after unlock(category, item), isUnlocked(category, item) is true, and no
\* unlock call removes a membership.
C2_UnlockedAfterUnlock ==
    [][/\ call'[1] = "unlock" => isUnlocked(state', call'[2], call'[3])
       /\ \A c \in Categories, i \in Items :
            isUnlocked(state, c, i) => isUnlocked(state', c, i)]_vars

\* the number of times item occurs in the category's array
MembershipCount(st, category, item) ==
    IF category \in DOMAIN st.unlocks
    THEN Cardinality({n \in 1..Len(st.unlocks[category]) : st.unlocks[category][n] = item})
    ELSE 0

\* C3: unlock(category, item) leaves item in the category exactly once; a first
\* call emits exactly one 'unlocked' event, a repeat call emits nothing and
\* changes nothing.
C3_UnlockTwiceOneEvent ==
    [][call'[1] = "unlock" =>
        LET c == call'[2]
            i == call'[3]
        IN  /\ MembershipCount(state', c, i) = 1
            /\ emitted' = IF isUnlocked(state, c, i)
                          THEN <<>>
                          ELSE << <<"unlocked", [category |-> c, item |-> i]>> >>
            /\ isUnlocked(state, c, i) => state' = state]_vars

Achievements == {"win_10", "perfect_1", "all_max_equipment"}

\* the condition of an achievement, as the claim states it
AchievementHolds(st, a) ==
    CASE a = "win_10"    -> st.player.statistics.gamesWon >= 10
      [] a = "perfect_1" -> st.player.statistics.perfectGames >= 1
      [] OTHER           -> \A c \in CharIds : st.characters[c].equipment.level >= 5

\* C4: checkAchievements returns exactly the achievements whose condition holds
\* and that are not yet unlocked, and unlocks each of them (so that no later
\* call returns it again).
C4_AchievementsReportedOnce ==
    [][call'[1] = "checkAchievements" =>
        \A a \in Achievements :
            /\ Includes(ret'.val, a) <=>
                    (AchievementHolds(state, a) /\ ~isUnlocked(state, "achievements", a))
            /\ Includes(ret'.val, a) => isUnlocked(state', "achievements", a)]_vars

\* the ending the priority order TRUE, SECRET, NORMAL, BAD selects
EndingByPriority(st) ==
    LET chars == st.characters IN
    IF /\ \A c \in CharIds : chars[c].equipment.level = 5
       /\ \A c \in CharIds : chars[c].intimacy = 100
       /\ st.player.totalScore >= 500000
    THEN "TRUE"
    ELSE IF /\ st.player.statistics.perfectGames >= 3
            /\ \A c \in CharIds : chars[c].victories >= chars[c].battleCount
            /\ isUnlocked(st, "achievements", "all_max_equipment")
    THEN "SECRET"
    ELSE IF /\ \A c \in CharIds : chars[c].battleCount > 0
            /\ \E c \in CharIds : chars[c].victories > 0
    THEN "NORMAL"
    ELSE "BAD"

\* C5: checkEndingConditions returns the first of TRUE, SECRET, NORMAL, BAD whose
\* predicate holds.
C5_EndingByPriority ==
    call[1] = "checkEndingConditions" => ret = JSString(EndingByPriority(state))

\* C6: in every state reached by updateScore, recordVictory, recordDefeat and
\* recordBattleResult calls, gamesWon <= gamesPlayed.
C6_WonAtMostPlayed ==
    state.player.statistics.gamesWon <= state.player.statistics.gamesPlayed

\* C7: after upgradeEquipment(id, newLevel, name) with any integer newLevel, the
\* character's equipment level is within [1,5].
C7_EquipmentLevelWithinRange ==
    (call[1] = "upgradeEquipment" /\ HasCharacter(state, call[2])) =>
        state.characters[call[2]].equipment.level \in 1..5

\* fields loadState sets itself, and fields whose default is drawn afresh
LoadStamps == {"lastPlayedAt", "hasUnsavedProgress"}
FreshDefaults == {"playerId", "createdAt"}

DefaultTree == getInitialState("player_a", 0)

\* loadState returned normally
Loaded(c, r) == c[1] = "loadState" /\ r = JSUndefined

\* C8: after a successful loadState the tree is determined by the snapshot and
\* the default template alone: a top-level field of the snapshot holds the
\* snapshot's value, every other field is a field of the template holding its
\* default value, and nothing of the pre-load tree survives.
C8_LoadReplacesWholesale ==
    Loaded(call, ret) =>
        \A k \in (DOMAIN state) \ LoadStamps :
            IF k \in DOMAIN OwnProps(call[2])
            THEN state[k] = call[2][k]
            ELSE /\ k \in DOMAIN DefaultTree
                 /\ k \notin FreshDefaults => state[k] = DefaultTree[k]

\* C9: loadState either adopts the new tree completely (every field of the
\* snapshot is live, no field of the template is missing, the tree is clean and
\* one stateLoaded event carries it), or it throws with the tree exactly as
\* before the call and no event emitted.
C9_LoadAtomic ==
    [][call'[1] = "loadState" =>
        \/ /\ ret'.type = "throw"
           /\ state' = state
           /\ emitted' = <<>>
        \/ /\ ret' = JSUndefined
           /\ \A k \in (DOMAIN OwnProps(call'[2])) \ LoadStamps :
                    k \in DOMAIN state' /\ state'[k] = call'[2][k]
           /\ DOMAIN DefaultTree \subseteq DOMAIN state'
           /\ state'.hasUnsavedProgress = FALSE
           /\ emitted' = << <<"stateLoaded", state'>> >>]_vars

\* C9 witness: a load has failed on a tree that held unsaved changes
C9_Witness ==
    /\ call[1] = "loadState"
    /\ ret.type = "throw"
    /\ state.hasUnsavedProgress
    /\ "unlockedContent" \in DOMAIN state

\* a snapshot that is not of the expected shape
Malformed(savedState) ==
    \/ ~IsObject(savedState)
    \/ \E k \in {"characters", "player", "unlocks"} \cap DOMAIN savedState :
            ~IsObject(savedState[k])

\* C10: loadState of a malformed snapshot throws and leaves the tree untouched.
C10_MalformedLoadFails ==
    [][(call'[1] = "loadState" /\ Malformed(call'[2])) =>
            (ret'.type = "throw" /\ state' = state)]_vars

\* C11: loadState(getCurrentState()) from a tree S reached by mutations leaves a
\* tree equal to S in every field but lastPlayedAt and hasUnsavedProgress.
C11_RoundTrip ==
    [][(call'[1] = "loadState" /\ call'[2] = getCurrentState(state)) =>
            /\ DOMAIN state' = DOMAIN state
            /\ \A k \in (DOMAIN state) \ LoadStamps : state'[k] = state[k]]_vars

\* a snapshot written under another schema version than the store's
OtherVersion(savedState) ==
    /\ IsObject(savedState)
    /\ "version" \in DOMAIN savedState
    /\ savedState.version # CurrentVersion

\* C12: after loadState of a snapshot of another version, every top-level field
\* of the default template holds the snapshot's value when the snapshot has the
\* field and the default value otherwise (flags = {} when flags is absent).
C12_MigrationFillsTemplate ==
    (Loaded(call, ret) /\ OtherVersion(call[2])) =>
        \A k \in (DOMAIN DefaultTree) \ LoadStamps :
            /\ k \in DOMAIN state
            /\ IF k \in DOMAIN call[2]
               THEN state[k] = call[2][k]
               ELSE k \notin FreshDefaults => state[k] = DefaultTree[k]

\* the mutations that take a character id as their first argument
CharacterOps ==
    {"updateCharacter", "upgradeEquipment", "updateIntimacy", "increaseIntimacy",
     "setCharacterLevel", "upgradeCharacterEquipment", "recordBattleResult",
     "recordVictory", "recordDefeat"}

\* C13: a mutation called with a character id that does not exist does not
\* throw and leaves the whole tree unchanged.
C13_UnknownIdNoOp ==
    [][(call'[1] \in CharacterOps /\ call'[2] = UnknownId) =>
            (ret'.type # "throw" /\ state' = state)]_vars

\* the mutations said to publish an event
PublishingOps ==
    {"changeScene", "updateCharacter", "upgradeEquipment", "updateScore",
     "updateIntimacy", "increaseIntimacy", "setFlag", "unlock",
     "recordBattleResult", "recordVictory", "recordDefeat", "setCharacterLevel",
     "upgradeCharacterEquipment", "updateSettings", "updatePlayTime", "resetGame"}

\* C14: a mutation that changes the tree publishes exactly one event.
C14_OneEventPerChange ==
    [][(call'[1] \in PublishingOps /\ state' # state) => Len(emitted') = 1]_vars

\* every mutation of the tree
MutationOps == PublishingOps \cup {"unlockEnding"}

\* C15: after a mutation that changes the tree, hasUnsavedProgress is true.
C15_ChangeMarksUnsaved ==
    [][(call'[1] \in MutationOps /\ state' # state) =>
            state'.hasUnsavedProgress = TRUE]_vars

\* C15 witness: upgradeCharacterEquipment has raised a level on a tree that held
\* no unsaved change, and the tree now holds one
C15_Witness ==
    /\ call = <<"upgradeCharacterEquipment", "1">>
    /\ ret = JSBoolean(TRUE)
    /\ state.characters["1"].equipment.level = 2
    /\ state.hasUnsavedProgress

\* 1 when b holds, else 0
One(b) == IF b THEN 1 ELSE 0

\* C16: recordBattleResult on an existing character adds 1 to the character's
\* battleCount and to gamesPlayed; adds 1 to the character's victories and to
\* gamesWon exactly for win and perfect_win; adds 1 to perfectGames exactly for
\* perfect_win; adds score to the character's and to the player's totalScore.
C16_BattleResultCounts ==
    [][(call'[1] = "recordBattleResult" /\ HasCharacter(state, call'[2])) =>
        LET result == call'[3]
            score == call'[4]
            old == state.characters[call'[2]]
            new == state'.characters[call'[2]]
            stats == state.player.statistics
            stats2 == state'.player.statistics
        IN  /\ new.battleCount = old.battleCount + 1
            /\ stats2.gamesPlayed = stats.gamesPlayed + 1
            /\ new.victories = old.victories + One(result \in {"win", "perfect_win"})
            /\ stats2.gamesWon = stats.gamesWon + One(result \in {"win", "perfect_win"})
            /\ stats2.perfectGames = stats.perfectGames + One(result = "perfect_win")
            /\ new.totalScore = OrZero(old, "totalScore") + score
            /\ state'.player.totalScore = state.player.totalScore + score]_vars

\* C16 witness: three perfect wins against character 1, then a win against
\* character 2 and a win against character 3
C16_Witness ==
    /\ call[1] = "recordBattleResult" /\ call[2] = "3" /\ call[3] = "win"
    /\ state.player.statistics.gamesPlayed = 5
    /\ state.player.statistics.gamesWon = 5
    /\ state.player.statistics.perfectGames = 3
    /\ state.characters["1"].victories = 3 /\ state.characters["1"].battleCount = 3
    /\ state.characters["2"].victories = 1 /\ state.characters["2"].battleCount = 1
    /\ state.characters["3"].victories = 1 /\ state.characters["3"].battleCount = 1

\* C17: after any sequence of recordBattleResult, recordVictory and recordDefeat
\* calls, every character's victories is at most its battleCount.
C17_VictoriesAtMostBattles ==
    \A c \in CharIds : state.characters[c].victories <= state.characters[c].battleCount

\* C17 witness: recordVictory has just counted a second victory in as many
\* battles for character 1, and character 2 has lost a battle
C17_Witness ==
    /\ call[1] = "recordVictory" /\ call[2] = "1"
    /\ state.characters["1"].victories = 2
    /\ state.characters["1"].battleCount = 2
    /\ state.characters["2"].victories = 0
    /\ state.characters["2"].battleCount = 1

\* C18: after updateCharacter on an existing character, with any field values,
\* that character's intimacy is within [0,100], its equipment level within
\* [1,5] and its victories at most its battleCount.
C18_UpdateCharacterValidates ==
    (call[1] = "updateCharacter" /\ HasCharacter(state, call[2])) =>
        LET char == state.characters[call[2]]
        IN  /\ char.intimacy \in 0..100
            /\ char.equipment.level \in 1..5
            /\ char.victories <= char.battleCount

\* C19: no call of upgradeEquipment or upgradeCharacterEquipment leaves the
\* character's equipment level lower than it was before the call.
C19_LevelNeverLowered ==
    [][(call'[1] \in {"upgradeEquipment", "upgradeCharacterEquipment"}
            /\ HasCharacter(state, call'[2])) =>
        state'.characters[call'[2]].equipment.level
            >= state.characters[call'[2]].equipment.level]_vars

\* no element of array occurs twice
NoDuplicate(array) ==
    \A i, j \in 1..Len(array) : array[i] = array[j] => i = j

KeptByReset == {"settings", "playerId"}
ResetStamps == {"createdAt", "lastPlayedAt", "hasUnsavedProgress"}

\* C21: after resetGame, settings and playerId equal their values before the
\* call; the tree has the fields of the default template and no other, and every
\* other field but the timestamps and the dirty flag holds its default value.
C21_ResetKeepsSettingsAndId ==
    [][call'[1] = "resetGame" =>
        /\ state'.settings = state.settings
        /\ state'.playerId = state.playerId
        /\ DOMAIN state' = DOMAIN DefaultTree
        /\ \A k \in (DOMAIN DefaultTree) \ (KeptByReset \cup ResetStamps) :
                state'[k] = DefaultTree[k]]_vars

\* C21 witness: a reset has kept settings changed during play
C21_Witness ==
    /\ call = <<"resetGame">>
    /\ state.settings.bgmVolume = 50
    /\ state.settings.fullscreen = TRUE
    /\ state.playerId = "player_b"
    /\ state.flags = EmptyObject
    /\ "unlockedContent" \notin DOMAIN state

\* the callbacks entered at depth d during the last operation, in order
Calls(log, d) == SelectSeq(log, LAMBDA e : e.kind = "call" /\ e.depth = d)

\* the callbacks registered for event in the map ls
CallbacksOf(ls, event) == IF event \in DOMAIN ls THEN ls[event] ELSE <<>>

\* C22: an emit(event, payload) enters every callback registered for event when
\* the emit begins, once per registration and in registration order, and enters
\* no callback registered for another event.
C22_EmitInvokesAllInOrder ==
    [][Len(emitted') > 0 =>
        LET event == emitted'[1][1]
            registered == CallbacksOf(listeners, event)
            calls == Calls(invoked', 1)
        IN  /\ Len(calls) = Len(registered)
            /\ \A i \in 1..Len(calls) :
                    calls[i].event = event /\ calls[i].callback = registered[i]]_vars

\* the tree the last mutation of the bus specifications wrote before it emitted
Written ==
    IF call'[1] = "changeScene"
    THEN changeSceneTree(state, call'[2], now')
    ELSE setFlagTree(state, call'[2], call'[3], now')

\* C23: when a callback throws during an emission, the callbacks registered
\* after it are still entered, the mutation that emitted does not throw, and
\* the tree the mutation wrote stays.
C23_ThrowingHandlerContained ==
    [][Len(emitted') > 0 =>
        LET registered == CallbacksOf(listeners, emitted'[1][1])
            calls == Calls(invoked', 1)
        IN  /\ Len(calls) = Len(registered)
            /\ \A i \in 1..Len(calls) : calls[i].callback = registered[i]
            /\ ret'.type # "throw"
            /\ state' = Written]_vars

\* C23 witness: changeScene has emitted to a callback that threw and then to
\* another callback
C23_Witness ==
    /\ call = <<"changeScene", "scene_1">>
    /\ ret = JSUndefined
    /\ state.currentScene = "scene_1"
    /\ Len(invoked) = 4
    /\ invoked[1].kind = "call" /\ invoked[1].callback = "thrower"
    /\ invoked[2].kind = "caught"
    /\ invoked[3].kind = "call" /\ invoked[3].callback = "logA"

\* entry j of log is where the callback entered at entry i is left
Leaves(log, i, j) ==
    /\ log[j].kind # "call"
    /\ log[j].depth = log[i].depth
    /\ log[j].event = log[i].event
    /\ log[j].callback = log[i].callback
    /\ \A m \in (i + 1)..(j - 1) : log[m].depth > log[i].depth

\* the callbacks entered one level below entry i of log before it is left at j
Inner(log, i, j) ==
    SelectSeq(SubSeq(log, i + 1, j - 1),
              LAMBDA e : e.kind = "call" /\ e.depth = log[i].depth + 1)

\* C24: a callback that calls a mutation during an emission is left only after
\* every callback of the mutation's own event has been entered and left, and
\* before the next callback of the outer event is entered; when the operation
\* returns, every callback entered has been left.
C24_NestedEmitDepthFirst ==
    [][\A i \in 1..Len(invoked') :
            invoked'[i].kind = "call" =>
                \E j \in (i + 1)..Len(invoked') :
                    /\ Leaves(invoked', i, j)
                    /\ LET inner == Inner(invoked', i, j)
                           registered ==
                               IF invoked'[i].callback = "setter"
                               THEN CallbacksOf(listeners, "flagChanged")
                               ELSE <<>>
                       IN  /\ Len(inner) = Len(registered)
                           /\ \A m \in 1..Len(inner) :
                                   /\ inner[m].event = "flagChanged"
                                   /\ inner[m].callback = registered[m]
                                   /\ inner[m].live.flags["seen"] = JSBoolean(TRUE)]_vars

\* C24 witness: changeScene emitted to a callback that called setFlag, whose
\* flagChanged callback ran before the next sceneChanged callback
C24_Witness ==
    /\ call = <<"changeScene", "scene_1">>
    /\ Len(invoked) = 6
    /\ invoked[1].kind = "call" /\ invoked[1].callback = "setter"
    /\ invoked[2].kind = "call" /\ invoked[2].callback = "logB" /\ invoked[2].depth = 2
    /\ invoked[3].kind = "return" /\ invoked[3].callback = "logB"
    /\ invoked[4].kind = "return" /\ invoked[4].callback = "setter"
    /\ invoked[5].kind = "call" /\ invoked[5].callback = "logA" /\ invoked[5].depth = 1
    /\ Len(emitted) = 2

\* the emit calls of es made for event
EmitsOf(es, event) == SelectSeq(es, LAMBDA e : e[1] = event)

\* C25: when loadState succeeds, the first callback entered already sees the
\* loaded tree (the snapshot's fields, hasUnsavedProgress false); exactly one
\* stateLoaded event is emitted and its payload is the live tree; and when no
\* callback mutates the store, hasUnsavedProgress is false on return.
C25_LoadedBeforeHandlers ==
    [][(call'[1] = "loadState" /\ ret' = JSUndefined) =>
        /\ Len(invoked') > 0 =>
                /\ invoked'[1].kind = "call" /\ invoked'[1].event = "stateLoaded"
                /\ invoked'[1].live.hasUnsavedProgress = FALSE
                /\ \A k \in (DOMAIN call'[2]) \ LoadStamps :
                        invoked'[1].live[k] = call'[2][k]
        /\ Len(EmitsOf(emitted', "stateLoaded")) = 1
        /\ emitted'[1] = <<"stateLoaded", state'>>
        /\ (\A i \in 1..Len(invoked') : invoked'[i].callback # "setter") =>
                state'.hasUnsavedProgress = FALSE]_vars

\* C25 witness: a snapshot was loaded over a tree with an unsaved flag, and a
\* subscriber of stateLoaded saw the loaded tree
C25_Witness ==
    /\ call = <<"loadState", PartialSnapshot>>
    /\ ret = JSUndefined
    /\ Len(invoked) = 2
    /\ invoked[1].callback = "logA"
    /\ invoked[1].live.currentScene = "scene_2"
    /\ invoked[1].live.flags = [met |-> JSBoolean(FALSE)]
    /\ state.hasUnsavedProgress = FALSE

\* C26: a write to the snapshot a caller holds from getCurrentState leaves the
\* live tree unchanged, and a mutation of the store leaves that snapshot
\* unchanged.
C26_SnapshotSelfContained ==
    [][/\ call'[1] = "editSnapshot" => state' = state
       /\ (call'[1] \in MutationOps /\ snapshot # JSNull) => snapshot' = snapshot]_vars

\* new is old without its first element equal to x
FirstRemoved(old, new, x) ==
    \E i \in 1..Len(old) :
        /\ old[i] = x
        /\ \A j \in 1..(i - 1) : old[j] # x
        /\ Len(new) = Len(old) - 1
        /\ \A j \in 1..Len(new) : new[j] = IF j < i THEN old[j] ELSE old[j + 1]

\* C27: off(event, handler) removes the first registration of handler for
\* event and no other; the registrations of other events are untouched, and an
\* off for a handler or an event that is not registered changes nothing.
C27_OffRemovesFirstMatch ==
    [][call'[1] = "off" =>
        LET event == call'[2]
            old == CallbacksOf(listeners, event)
        IN  /\ state' = state
            /\ DOMAIN listeners' = DOMAIN listeners
            /\ \A e \in (DOMAIN listeners) \ {event} : listeners'[e] = listeners[e]
            /\ IF \E i \in 1..Len(old) : old[i] = call'[3]
               THEN FirstRemoved(old, listeners'[event], call'[3])
               ELSE listeners' = listeners]_vars

\* C27 witness: logA was registered twice for sceneChanged with logB between
\* or before them, and one off has left one registration of it, after logB
C27_Witness ==
    /\ call = <<"off", "sceneChanged", "logA">>
    /\ "sceneChanged" \in DOMAIN listeners
    /\ listeners["sceneChanged"] = <<"logB", "logA">>

\* a value is stored under flagName: undefined is what reading an absent
\* property gives, so a flag set to undefined holds no value
Stored(flags, flagName) ==
    flagName \in DOMAIN flags /\ flags[flagName].type # "undefined"

\* C28: getFlag changes neither the tree (its dirty flag included) nor emits;
\* it returns the default when no value is stored under the name, and otherwise
\* the stored value, which is the value of the latest setFlag for the name.
C28_GetFlagPure ==
    [][/\ call'[1] = "getFlag" =>
            /\ state' = state
            /\ emitted' = <<>>
            /\ ret' = IF Stored(state.flags, call'[2])
                      THEN state.flags[call'[2]] ELSE call'[3]
       /\ call'[1] = "setFlag" => state'.flags[call'[2]] = call'[3]]_vars

\* C28 witness: getFlag returned the stored value false where the default was
\* another value
C28_Witness ==
    /\ call = <<"getFlag", "met", JSString("none")>>
    /\ ret = JSBoolean(FALSE)
    /\ state.flags["met"] = JSBoolean(FALSE)
    /\ state.hasUnsavedProgress

\* C29: checkEndingConditions changes no field of the tree (the dirty flag
\* included) and emits no event, and what it returns is determined by the
\* characters' victories, so that two evaluations on the same tree return the
\* same.
C29_EndingEvaluationPure ==
    [][call'[1] = "checkEndingConditions" =>
        /\ state' = state
        /\ emitted' = <<>>
        /\ ret' = JSBoolean(\A c \in CharIds : state.characters[c].victories > 0)
        /\ call[1] = "checkEndingConditions" => ret' = ret]_vars

\* C29 witness: an evaluation after every character was defeated
C29_Witness ==
    /\ call = <<"checkEndingConditions">>
    /\ ret = JSBoolean(TRUE)
    /\ \A c \in CharIds : state.characters[c].victories > 0
    /\ "unlockedEndings" \notin DOMAIN state

\* C30: after any sequence of successful loads, the version loadState compares
\* an incoming snapshot's version with is the current expected version.
C30_ComparedVersionIsCurrent ==
    Loaded(call, ret) => state.version = CurrentVersion

\* how many times x occurs in the sequence s
Occurrences(s, x) == Cardinality({i \in 1..Len(s) : s[i] = x})

\* C33: when a callback calls off for the event being emitted, no other
\* callback is skipped: a callback registered once for the event when the
\* emission starts, and still registered when it ends, is entered exactly once
\* in that emission.
C33_UnsubscribeSkipsNoHandler ==
    [][Len(emitted') > 0 =>
        LET event == emitted'[1][1]
            before == CallbacksOf(listeners, event)
            after == CallbacksOf(listeners', event)
            calls == Calls(invoked', 1)
        IN  \A i \in 1..Len(before) :
                (/\ Occurrences(before, before[i]) = 1
                 /\ Occurrences(after, before[i]) = 1)
                => Cardinality({j \in 1..Len(calls) :
                                    calls[j].callback = before[i]}) = 1]_vars

\* the victories of the characters ids of the tree st, added up
RECURSIVE SumVictories(_, _)
SumVictories(st, ids) ==
    IF ids = {} THEN 0
    ELSE LET c == CHOOSE c \in ids : TRUE
         IN  OrZero(st.characters[c], "victories") + SumVictories(st, ids \ {c})

\* C34: after any sequence of recordBattleResult, recordVictory and recordDefeat
\* calls from the defaults, with any character id, the player's gamesWon equals
\* the victories of all the characters added up.
C34_GamesWonIsSumOfVictories ==
    state.player.statistics.gamesWon = SumVictories(state, DOMAIN state.characters)

\* the mutations that are addressed to one character
AddressedOps ==
    {"updateCharacter", "upgradeEquipment", "updateIntimacy", "increaseIntimacy",
     "setCharacterLevel", "upgradeCharacterEquipment", "recordBattleResult",
     "recordDefeat"}

\* the top-level fields a mutation addressed to a character leaves alone
FrameOfCharacter ==
    {"settings", "flags", "unlocks", "unlockedContent", "unlockedEndings",
     "completedScenes", "currentScene", "playerId"}

\* C35: a mutation addressed to character id i leaves every other character as
\* it was, and leaves settings, flags, the unlock table, completedScenes,
\* currentScene and playerId as they were.
C35_OtherCharactersUntouched ==
    [][call'[1] \in AddressedOps =>
        /\ DOMAIN state' = DOMAIN state
        /\ DOMAIN state'.characters = DOMAIN state.characters
        /\ \A c \in DOMAIN state.characters \ {call'[2]} :
                state'.characters[c] = state.characters[c]
        /\ \A k \in FrameOfCharacter \cap DOMAIN state : state'[k] = state[k]]_vars

\* C35 witness: on a loaded tree, after other changes to character 2, a battle
\* won against character 2 has been recorded
C35_Witness ==
    /\ call[1] = "recordBattleResult" /\ call[2] = "2"
    /\ state.characters["2"].victories = 1
    /\ state.characters["2"].intimacy = 100
    /\ state.characters["2"].equipment.level = 5
    /\ state.characters["1"].intimacy = 100
    /\ state.characters["3"] = getInitialState("player_s", 0).characters["3"]
    /\ state.flags = [met |-> JSBoolean(TRUE)]
    /\ state.currentScene = "scene_2"

\* the equipment level of character id in the tree st
EquipmentLevel(st, id) == st.characters[id].equipment.level

\* C36: upgradeCharacterEquipment(id) on a character whose equipment level is in
\* 1..4 raises the level by exactly 1, marks the tree unsaved and returns true;
\* on a character at level 5, or on an unknown id, it returns false and leaves
\* the whole tree, hasUnsavedProgress included, unchanged.
C36_UpgradeStepsToFive ==
    [][call'[1] = "upgradeCharacterEquipment" =>
        LET id == call'[2] IN
        IF ~HasCharacter(state, id)
        THEN ret' = JSBoolean(FALSE) /\ state' = state
        ELSE /\ EquipmentLevel(state, id) \in 1..4 =>
                    /\ EquipmentLevel(state', id) = EquipmentLevel(state, id) + 1
                    /\ state'.hasUnsavedProgress = TRUE
                    /\ ret' = JSBoolean(TRUE)
             /\ EquipmentLevel(state, id) = 5 =>
                    ret' = JSBoolean(FALSE) /\ state' = state]_vars

\* C36 witness: the call has just raised character 1 from level 4 to level 5
C36_Witness ==
    /\ call = <<"upgradeCharacterEquipment", "1">>
    /\ ret = JSBoolean(TRUE)
    /\ EquipmentLevel(state, "1") = 5
    /\ state.characters["1"].equipment.name # "full"

\* loadSaveData has just run on a stored text for which the condition holds
LoadSaveDataOn(condition) ==
    /\ app.pc = "loadSaveData"
    /\ app'.pc # "loadSaveData"
    /\ storage # NoItem
    /\ condition

\* what C31 tells of a run of loadSaveData: the stored save is discarded, no
\* error reaches initialize, the tree is the one of before, which is the
\* constructor's, and initialize goes on to enter the title scene
FallsBackToDefaults ==
    /\ storage' = NoItem
    /\ state' = state
    /\ \E p \in PlayerIds : state' = getInitialState(p, 0)
    /\ app'.alerts = app.alerts
    /\ app'.isInitialized = FALSE
    /\ app'.pc = "sceneManager.changeScene"

\* C31: when the stored save cannot be parsed or loadState throws on it,
\* loadSaveData discards the stored save, does not propagate the error, leaves
\* the tree as it was before the attempt (the defaults), and initialize goes on
\* to the title scene.
C31_CorruptSaveDiscarded ==
    [][LoadSaveDataOn(LoadThrows(storage)) => FallsBackToDefaults]_vars

\* C31, amended: the same for a stored save that is not the empty string.
C31_NonEmptyCorruptSaveDiscarded ==
    [][LoadSaveDataOn(Truthy(storage) /\ LoadThrows(storage))
            => FallsBackToDefaults]_vars

\* C31 witness: loadSaveData has read the text null, loadState has thrown on the
\* parsed value, the item is gone and initialize is about to enter the title
\* scene
C31_Witness ==
    /\ app.pc = "sceneManager.changeScene"
    /\ call = <<"loadState", JSNull>>
    /\ ret = Thrown("TypeError")
    /\ storage = NoItem
    /\ app.alerts = 0

\* C32: after saveGame has stored the game, and before any further mutation,
\* hasUnsavedProgress() is false; so when the page is left and the save made on
\* the way out has succeeded, no confirmation for unsaved progress is asked.
C32_SavedGameIsNotUnsaved ==
    /\ (call = <<"saveGame">> /\ app.saved = "saved")
            => state.hasUnsavedProgress = FALSE
    /\ (call = <<"beforeunload">> /\ app.saved = "saved")
            => ret = JSUndefined

\* the steps of the try block of initialize, in the order of the code
InitializeSteps ==
    <<"loadGameData", "audioManager.initialize", "registerScenes",
      "setupEventListeners", "loadSaveData", "sceneManager.changeScene">>

\* C37: a run of initialize that has ended has either set isInitialized, after
\* the CSV data was loaded and validated, the audio initialised, the scenes
\* registered, the listeners set up, the save loaded and the title scene
\* entered, in that order, and has shown no error; or it has shown an error and
\* isInitialized is still false.  Either way the loading indicator is not shown
\* at the end.  isInitialized is never true before the run has ended.
C37_InitializeOutcomes ==
    /\ app.pc = "done" =>
        /\ \/ app.isInitialized /\ app.alerts = 0 /\ app.steps = InitializeSteps
           \/ ~app.isInitialized /\ app.alerts = 1
        /\ app.loading \in {"hidden", "missing"}
    /\ app.pc # "done" => ~app.isInitialized /\ app.alerts = 0

\* C37 witness: initialize has ended with the stored game loaded, the title
\* scene entered and the loading indicator, shown at the start, hidden
C37_Witness ==
    /\ call = <<"sceneManager.changeScene">>
    /\ app.pc = "done"
    /\ app.isInitialized
    /\ app.loading = "hidden"
    /\ state.currentScene = "scene_2"
    /\ state.hasUnsavedProgress = FALSE

====
